---- MODULE Spec2Model ----
(***************************************************************************)
(* A model of main.py: the TensorFlow dependency fetcher.                  *)
(*                                                                         *)
(* Strings are sequences of tokens (a token is a run of characters that    *)
(* the program never splits for the inputs enumerated here), so that the   *)
(* string operations of the program (regex search, substring test, path    *)
(* tail, URL preparation, marker naming) are computed and not assumed.     *)
(* The cache directory is a function from file name to file content.       *)
(***************************************************************************)
EXTENDS Naturals, Sequences, FiniteSets, TLC

(***************************************************************************)
(* Bounds of the model.                                                    *)
(***************************************************************************)
\* longest URL list handed to _download_urls
MaxUrls == 2
\* number of consecutive batch runs over the same list and cache directory
MaxRuns == 2
\* number of lines of a manifest text
MaxLines == 3

(***************************************************************************)
(* URLs and the network.                                                   *)
(***************************************************************************)
U_PKG == <<"https://", "example.com", "/", "pkg.tar.gz">>
U_BARE == <<"https://", "example.com">>
U_ROOT == <<"https://", "example.com", "/">>
U_CDN == <<"https://", "cdn.example.com", "/", "pkg-1.0.tar.gz">>

\* the URL strings a list may hold
ListedUrls == {U_PKG, U_BARE}
\* every URL string of the model
AllUrls == ListedUrls \cup {U_ROOT, U_CDN}

\* hashlib.md5(url.encode()).hexdigest() of the URL strings above
md5_hexdigest(url) ==
    CASE url = U_PKG -> "5d39a8235a2c94ca73740b39461ecf25"
      [] url = U_BARE -> "c984d06aafbecf6bc55569f964148ea3"
      [] url = U_ROOT -> "182ccedb33a9e03fbf1079b209da1a31"
      [] url = U_CDN -> "ce6322c8f6bf093d1aceb6ecd6b0ae45"

\* The URL a requests.Response reports for a request made with string url:
\* requests prepares the URL before sending it, and a URL with an empty path
\* gets the path "/" (the other URLs here are already in prepared form).
PrepareUrl(url) == IF Len(url) = 2 THEN url \o <<"/">> ELSE url

Quote == "\""

\* what the server side does for a URL
Kinds == {"exc", "500", "200", "redirect", "named", "named_marker"}

NoHeaders == <<>>
Body(url) == <<"bytes of">> \o PrepareUrl(url)

\* The value of requests.get(url) for each kind of server behaviour.  A
\* raised transport exception is the record with raised = TRUE.
Get(url, kind) ==
    LET base == [raised |-> FALSE, ok |-> TRUE, status_code |-> 200,
                 url |-> PrepareUrl(url), history |-> <<>>,
                 headers |-> NoHeaders, content |-> Body(url)]
    IN CASE kind = "exc" ->
              [base EXCEPT !.raised = TRUE, !.ok = FALSE, !.status_code = 0,
                           !.content = <<>>]
         [] kind = "500" ->
              [base EXCEPT !.ok = FALSE, !.status_code = 500, !.content = <<>>]
         [] kind = "200" -> base
         [] kind = "redirect" ->
              [base EXCEPT !.url = U_CDN, !.history = <<PrepareUrl(url)>>]
         [] kind = "named" ->
              [base EXCEPT !.headers =
                  ("content-disposition" :>
                       <<"attachment; ", "filename=", Quote, "pkg.tar.gz", Quote>>)]
         [] kind = "named_marker" ->
              [base EXCEPT !.headers =
                  ("content-disposition" :>
                       <<"attachment; ", "filename=",
                         "@", md5_hexdigest(U_PKG), ".txt">>)]

\* what can go wrong on the file system while a response is cached:
\* nothing, open() raises, write() raises after open() created or truncated
\* the file, touch() raises after the payload was written
Faults == {"none", "open", "write", "touch"}

(***************************************************************************)
(* The cache directory.                                                    *)
(***************************************************************************)
EmptyDir == <<>>
EmptyFile == <<>>

WriteFile(d, name, data) ==
    [n \in (DOMAIN d) \cup {name} |-> IF n = name THEN data ELSE d[n]]

\* a variant of Touch that removes a file that exists
TouchToggle(d, name) ==
    IF name \in DOMAIN d THEN [n \in (DOMAIN d) \ {name} |-> d[n]]
    ELSE WriteFile(d, name, EmptyFile)

\* Path.touch(): creates an empty file, leaves an existing one as it is
Touch(d, name) == IF name \in DOMAIN d THEN d ELSE WriteFile(d, name, EmptyFile)

\* [p.name for p in download_dir.glob("@*.txt")]
Glob(d) == {n \in DOMAIN d : Len(n) >= 2 /\ n[1] = "@" /\ n[Len(n)] = ".txt"}

\* Path(url).name: the last component of the string read as a path
PathName(url) ==
    LET parts == SelectSeq(url, LAMBDA t : t # "/")
        last == parts[Len(parts)]
    IN IF last = "https://" THEN <<"https:">> ELSE <<last>>

_ckpt_filename(url) == <<"@", md5_hexdigest(url), ".txt">>

\* a variant of _is_cached that looks for the payload instead of the marker
IsCachedByPayload(download_dir, url) == PathName(url) \in DOMAIN download_dir

_is_cached(download_dir, url) == _ckpt_filename(url) \in Glob(download_dir)

\* response.headers is case-insensitive: it is kept under lower-case keys
Lower(key) == IF key = "Content-Disposition" THEN "content-disposition" ELSE key
HasHeader(headers, key) == Lower(key) \in DOMAIN headers
Header(headers, key) == headers[Lower(key)]

\* re.findall('filename=(.+)', content): the text after the first filename=
FindFilename(content) ==
    LET at == {i \in 1..Len(content) : content[i] = "filename=" /\ i < Len(content)}
    IN IF at = {} THEN <<>>
       ELSE LET i == CHOOSE j \in at : \A k \in at : j <= k
            IN <<SubSeq(content, i + 1, Len(content))>>

\* The result of line 99 (strip) is discarded, so fname is the raw match.
_get_response_filename(response) ==
    LET key == "Content-Disposition"
        found == IF HasHeader(response.headers, key)
                 THEN FindFilename(Header(response.headers, key))
                 ELSE IF HasHeader(response.headers, Lower(key))
                 THEN FindFilename(Header(response.headers, Lower(key)))
                 ELSE <<>>
    IN IF found # <<>> THEN found[1] ELSE PathName(response.url)

\* a variant of _cache_dependency that touches the marker before it writes
\* the payload
CacheDependencyMarkerFirst(download_dir, response, fault) ==
    LET cache_file == _get_response_filename(response)
        requested_url == IF response.history # <<>> THEN response.history[1]
                         ELSE response.url
        marked == Touch(download_dir, _ckpt_filename(requested_url))
    IN CASE fault = "touch" -> [dir |-> download_dir, raised |-> TRUE, ops |-> <<>>]
         [] fault = "open" -> [dir |-> marked, raised |-> TRUE, ops |-> <<"touch">>]
         [] fault = "write" ->
              [dir |-> WriteFile(marked, cache_file, EmptyFile), raised |-> TRUE,
               ops |-> <<"touch", "open">>]
         [] OTHER ->
              [dir |-> WriteFile(marked, cache_file, response.content),
               raised |-> FALSE, ops |-> <<"touch", "open", "write">>]

\* The directory after _cache_dependency, whether it raised, and the file
\* operations it completed, in order.
_cache_dependency(download_dir, response, fault) ==
    LET cache_file == _get_response_filename(response)
        written == IF fault = "open" THEN download_dir
                   ELSE IF fault = "write"
                   THEN WriteFile(download_dir, cache_file, EmptyFile)
                   ELSE WriteFile(download_dir, cache_file, response.content)
        requested_url == IF response.history # <<>> THEN response.history[1]
                         ELSE response.url
        dep_ckpt_filename == _ckpt_filename(requested_url)
    IN CASE fault = "open" -> [dir |-> written, raised |-> TRUE, ops |-> <<>>]
         [] fault = "write" ->
              [dir |-> written, raised |-> TRUE, ops |-> <<"open">>]
         [] fault = "touch" ->
              [dir |-> written, raised |-> TRUE, ops |-> <<"open", "write">>]
         [] OTHER ->
              [dir |-> Touch(written, dep_ckpt_filename), raised |-> FALSE,
               ops |-> <<"open", "write", "touch">>]

(***************************************************************************)
(* URL extraction from a manifest text.                                    *)
(***************************************************************************)
Newline == "\n"

\* the lines a manifest text is made of
ManifestLines ==
    { <<Quote, "https://", "a.org/x.zip", Quote, ",">>,
      <<Quote, "https://", "mirror.bazel.build", "/x.zip", Quote, ",">>,
      <<Quote, "https://", "storage.googleapis.com/", "mirror.tensorflow.org",
        "/y.zip", Quote>>,
      <<"url = ", Quote, "https://", "b.org/y.zip", Quote>>,
      <<Quote, "https://", "a.org/x.zip", Quote, ",", " ",
        Quote, "https://", "mirror.bazel.build", "/x.zip", Quote>>,
      <<"# no url">>,
      <<Quote, "http://", "a.org/x.zip", Quote>>,
      <<Quote, "https://", "a.org/x.zip">> }

RECURSIVE JoinLines(_)
JoinLines(lines) ==
    IF lines = <<>> THEN <<>>
    ELSE IF Len(lines) = 1 THEN lines[1]
    ELSE lines[1] \o <<Newline>> \o JoinLines(Tail(lines))

\* the index of the end of the line that holds position p: the first
\* Newline at or after p, or one past the end of the text
RECURSIVE LineEnd(_, _)
LineEnd(s, p) ==
    IF p > Len(s) \/ s[p] = Newline THEN p ELSE LineEnd(s, p + 1)

\* re.findall('"(https://.*)",?', s) from position p on: a match starts at
\* a quote followed by https://, the greedy .* runs to the end of the line
\* and backs off to the last quote of the line, an optional comma is
\* consumed, and the search resumes after the match.  findall returns the
\* pattern's one group.
RECURSIVE FindAllFrom(_, _)
FindAllFrom(s, p) ==
    IF p > Len(s) THEN <<>>
    ELSE IF p + 1 <= Len(s) /\ s[p] = Quote /\ s[p + 1] = "https://"
    THEN LET closers == {q \in (p + 2)..(LineEnd(s, p) - 1) : s[q] = Quote}
         IN IF closers = {} THEN FindAllFrom(s, p + 1)
            ELSE LET q == CHOOSE c \in closers : \A d \in closers : d <= c
                     e == IF q + 1 <= Len(s) /\ s[q + 1] = "," THEN q + 2
                          ELSE q + 1
                 IN <<SubSeq(s, p + 1, q - 1)>> \o FindAllFrom(s, e)
    ELSE FindAllFrom(s, p + 1)

DEPENDENCY_URL_PATTERN(s) == FindAllFrom(s, 1)

\* sub in url, for a sub that is one token
Contains(url, sub) == \E i \in 1..Len(url) : url[i] = sub

\* a variant of _is_mirror_url that knows one mirror only
IsBazelMirror(url) == Contains(url, "mirror.bazel.build")

_is_mirror_url(url) ==
    Contains(url, "mirror.bazel.build") \/ Contains(url, "mirror.tensorflow.org")

\* [link for link in urls if not self._is_mirror_url(link)]
RECURSIVE WithoutMirrors(_)
WithoutMirrors(links) ==
    IF links = <<>> THEN <<>>
    ELSE IF _is_mirror_url(Head(links)) THEN WithoutMirrors(Tail(links))
    ELSE <<Head(links)>> \o WithoutMirrors(Tail(links))

_extract_dependency_urls(text, mirrors_removed) ==
    LET found == DEPENDENCY_URL_PATTERN(text)
    IN IF mirrors_removed THEN WithoutMirrors(found) ELSE found

(***************************************************************************)
(* State.                                                                  *)
(***************************************************************************)
VARIABLES
    urls,              \* the URL list of the source tree (urls_to_download)
    dir,               \* the cache directory: file name -> content
    dir0,              \* the cache directory before the first run
    net,               \* the server's behaviour per URL, "unknown" until used
    pc,                \* "idle", "loop" (inside _download_urls) or "crashed"
    caller,            \* who started the batch: "none", "direct" or "main"
    run,               \* number of batch runs started
    idx,               \* position in urls of the entry to process next
    num_skipped,
    num_success,
    failed_downloads,
    outcomes,          \* this run's outcome per processed entry
    requests_log,      \* this run's requests.get(url) calls, in order
    events,            \* the steps of the entry processed last, in order,
                       \* each <<position of the entry, step>>
    downloaded,        \* URLs whose GET succeeded and whose payload was written
    summaries,         \* the printed summary of every finished run
    exit_code,         \* of the process started by main: "none", 0 or 1
    contents,          \* the text of a manifest file
    remove_mirrors,    \* the argument of _extract_dependency_urls
    dependency_urls    \* its result, "none" before the call

vars == <<urls, dir, dir0, net, pc, caller, run, idx, num_skipped, num_success,
          failed_downloads, outcomes, requests_log, events, downloaded,
          summaries, exit_code, contents, remove_mirrors, dependency_urls>>

download_vars == <<urls, dir, dir0, net, pc, caller, run, idx, num_skipped,
                   num_success, failed_downloads, outcomes, requests_log,
                   events, downloaded, summaries, exit_code>>
extract_vars == <<contents, remove_mirrors, dependency_urls>>

RECURSIVE SeqsUpTo(_, _)
SeqsUpTo(S, n) ==
    IF n = 0 THEN {<<>>}
    ELSE LET shorter == SeqsUpTo(S, n - 1)
         IN shorter \cup {Append(s, x) : s \in {t \in shorter : Len(t) = n - 1}, x \in S}

\* a cache directory left by an earlier run that fetched U_PKG
PriorDir == Touch(WriteFile(EmptyDir, PathName(U_PKG), Body(U_PKG)),
                  _ckpt_filename(U_PKG))

\* the state before any batch run, for a URL list and a cache directory
InitDownload(lists, dirs) ==
    /\ urls \in lists
    /\ dir \in dirs
    /\ dir0 = dir
    /\ net = [u \in ListedUrls |-> "unknown"]
    /\ pc = "idle"
    /\ caller = "none"
    /\ run = 0
    /\ idx = 1
    /\ num_skipped = 0
    /\ num_success = 0
    /\ failed_downloads = <<>>
    /\ outcomes = <<>>
    /\ requests_log = <<>>
    /\ events = <<>>
    /\ downloaded = {}
    /\ summaries = <<>>
    /\ exit_code = "none"

\* the state before _extract_dependency_urls is called on a text
InitExtract(texts, flags) ==
    /\ contents \in texts
    /\ remove_mirrors \in flags
    /\ dependency_urls = "none"

Init ==
    /\ InitDownload(SeqsUpTo(ListedUrls, MaxUrls), {EmptyDir, PriorDir})
    /\ InitExtract({<<>>}, {TRUE})

(***************************************************************************)
(* The program.                                                            *)
(***************************************************************************)
\* get_tf_version: glob() returns a generator and open() of a generator
\* raises TypeError, for every source tree; nothing after line 21 runs.
get_tf_version == [raised |-> TRUE, exc |-> "TypeError"]

\* lines 31-34: the locals of _download_urls
BeginBatch(who) ==
    /\ pc' = "loop"
    /\ caller' = who
    /\ run' = run + 1
    /\ idx' = 1
    /\ num_skipped' = 0
    /\ num_success' = 0
    /\ failed_downloads' = <<>>
    /\ outcomes' = <<>>
    /\ requests_log' = <<>>
    /\ events' = <<>>
    /\ UNCHANGED <<extract_vars, urls, dir, dir0, net, downloaded, summaries, exit_code>>

\* main(args): the directory exists already, TensorflowRepo(tf_dir) runs
\* get_tf_version, and an exception it raises ends the process with a
\* traceback and exit status 1.
Main ==
    /\ pc = "idle"
    /\ caller = "none"
    /\ IF get_tf_version.raised
       THEN /\ pc' = "crashed"
            /\ caller' = "main"
            /\ exit_code' = 1
            /\ UNCHANGED <<extract_vars, urls, dir, dir0, net, run, idx, num_skipped,
                           num_success, failed_downloads, outcomes,
                           requests_log, events, downloaded, summaries>>
       ELSE BeginBatch("main")

\* _download_urls called on a TensorflowRepo object directly
DownloadUrls ==
    /\ pc = "idle"
    /\ caller \in {"none", "direct"}
    /\ run < MaxRuns
    /\ BeginBatch("direct")

\* a variant of LoopSkip that leaves the loop body before counting
LoopSkipUncounted ==
    /\ pc = "loop"
    /\ idx <= Len(urls)
    /\ _is_cached(dir, urls[idx])
    /\ outcomes' = Append(outcomes, "skipped")
    /\ events' = <<<<idx, "check">>, <<idx, "skipped">>>>
    /\ idx' = idx + 1
    /\ UNCHANGED <<extract_vars, urls, dir, dir0, net, pc, caller, run, num_skipped,
                   num_success, failed_downloads, requests_log, downloaded,
                   summaries, exit_code>>

\* lines 36-39: the entry's marker is present
LoopSkip ==
    /\ pc = "loop"
    /\ idx <= Len(urls)
    /\ _is_cached(dir, urls[idx])
    /\ num_skipped' = num_skipped + 1
    /\ outcomes' = Append(outcomes, "skipped")
    /\ events' = <<<<idx, "check">>, <<idx, "skipped">>>>
    /\ idx' = idx + 1
    /\ UNCHANGED <<extract_vars, urls, dir, dir0, net, pc, caller, run, num_success,
                   failed_downloads, requests_log, downloaded, summaries,
                   exit_code>>

\* a variant of TryDownload without the response.ok test
TryDownloadUnchecked(download_dir, resp, fault) ==
    IF resp.raised
    THEN [dir |-> download_dir, outcome |-> "failed", ops |-> <<>>]
    ELSE LET cached == _cache_dependency(download_dir, resp, fault)
         IN [dir |-> cached.dir, ops |-> cached.ops,
             outcome |-> IF cached.raised THEN "failed" ELSE "succeeded"]

\* lines 40-50 after requests.get returned or raised: the directory left
\* behind, the entry's outcome and the file operations completed
TryDownload(download_dir, resp, fault) ==
    IF resp.raised
    THEN [dir |-> download_dir, outcome |-> "failed", ops |-> <<>>]
    ELSE IF resp.ok
    THEN LET cached == _cache_dependency(download_dir, resp, fault)
         IN [dir |-> cached.dir, ops |-> cached.ops,
             outcome |-> IF cached.raised THEN "failed" ELSE "succeeded"]
    ELSE [dir |-> download_dir, outcome |-> "failed", ops |-> <<>>]

\* lines 36-50: the entry's marker is absent
LoopFetch ==
    /\ pc = "loop"
    /\ idx <= Len(urls)
    /\ ~_is_cached(dir, urls[idx])
    /\ LET url == urls[idx]
       IN \E kind \in (IF net[url] = "unknown" THEN Kinds ELSE {net[url]}) :
            LET resp == Get(url, kind)
            IN \E fault \in (IF ~resp.raised /\ resp.ok THEN Faults ELSE {"none"}) :
                 LET done == TryDownload(dir, resp, fault)
                 IN /\ net' = [net EXCEPT ![url] = kind]
                    /\ requests_log' = Append(requests_log, url)
                    /\ dir' = done.dir
                    /\ num_success' = IF done.outcome = "succeeded"
                                      THEN num_success + 1 ELSE num_success
                    /\ failed_downloads' = IF done.outcome = "failed"
                                           THEN Append(failed_downloads, url)
                                           ELSE failed_downloads
                    /\ outcomes' = Append(outcomes, done.outcome)
                    /\ events' = <<<<idx, "check">>, <<idx, "get">>>>
                                     \o [k \in 1..Len(done.ops) |-> <<idx, done.ops[k]>>]
                                     \o <<<<idx, done.outcome>>>>
                    /\ downloaded' = IF ~resp.raised /\ resp.ok
                                        /\ fault \in {"none", "touch"}
                                     THEN downloaded \cup {url} ELSE downloaded
    /\ idx' = idx + 1
    /\ UNCHANGED <<extract_vars, urls, dir0, pc, caller, run, num_skipped,
                   summaries, exit_code>>

\* lines 52-59: the summary is printed and the locals of _download_urls go
\* out of scope; a process started by main then ends normally
DownloadUrlsEnd ==
    /\ pc = "loop"
    /\ idx > Len(urls)
    /\ pc' = "idle"
    /\ summaries' = Append(summaries, [failed |-> Len(failed_downloads),
                                       skipped |-> num_skipped,
                                       completed |-> num_success])
    /\ exit_code' = IF caller = "main" THEN 0 ELSE exit_code
    /\ idx' = 1
    /\ num_skipped' = 0
    /\ num_success' = 0
    /\ failed_downloads' = <<>>
    /\ outcomes' = <<>>
    /\ requests_log' = <<>>
    /\ events' = <<>>
    /\ UNCHANGED <<extract_vars, urls, dir, dir0, net, caller, run, downloaded>>

Next == Main \/ DownloadUrls \/ LoopSkip \/ LoopFetch \/ DownloadUrlsEnd

Spec == Init /\ [][Next]_vars

(***************************************************************************)
(* URL extraction as a specification of its own: the text and the flag are  *)
(* the inputs, the one action applies _extract_dependency_urls.            *)
(***************************************************************************)
ManifestTexts == {JoinLines(ls) : ls \in SeqsUpTo(ManifestLines, MaxLines)}

ExtractInit ==
    /\ InitDownload({<<>>}, {EmptyDir})
    /\ InitExtract(ManifestTexts, BOOLEAN)

\* lines 117-122
ExtractDependencyUrls ==
    /\ dependency_urls = "none"
    /\ dependency_urls' = _extract_dependency_urls(contents, remove_mirrors)
    /\ UNCHANGED <<download_vars, contents, remove_mirrors>>

ExtractNext == ExtractDependencyUrls

SpecExtract == ExtractInit /\ [][ExtractNext]_vars

(***************************************************************************)
(* Properties.                                                             *)
(***************************************************************************)
\* the marker file of url is in the directory
MarkerPresent(d, url) == _ckpt_filename(url) \in DOMAIN d

\* this step processes list entry idx
EntryStep == pc = "loop" /\ idx <= Len(urls) /\ idx' = idx + 1
\* the outcome this step gives the entry
OutcomeOfStep == outcomes'[Len(outcomes')]
\* this step issues the GET of entry idx
GetStep == EntryStep /\ requests_log' = Append(requests_log, urls[idx])
\* the response of this step's GET
ResponseOfStep == Get(urls[idx], net'[urls[idx]])

\* C1: of two runs over the same list and directory with the same network,
\* the second reports zero succeeded, zero failed, and as many skipped as
\* the first run's succeeded plus skipped.  Stated for a first run without
\* a failed download (with the network unchanged, a URL that failed in the
\* first run fails again in the second).
SecondRunSkipsAll ==
    (Len(summaries) >= 2 /\ summaries[1].failed = 0)
        => /\ summaries[2].completed = 0
           /\ summaries[2].failed = 0
           /\ summaries[2].skipped = summaries[1].completed + summaries[1].skipped

\* C2: a marker file that this system created exists only for a URL whose
\* GET succeeded and whose payload write completed.
MarkerOnlyAfterDownload ==
    \A u \in AllUrls :
        (MarkerPresent(dir, u) /\ ~MarkerPresent(dir0, u)) => u \in downloaded

\* C3: an entry that fails does not stop the loop, and leaves every later
\* entry cached or not cached exactly as it was, so the later entries fare
\* as if the failed entry had not been in the list.
FailureIsolation ==
    [][(EntryStep /\ OutcomeOfStep = "failed")
          => /\ pc' = "loop"
             /\ \A j \in (idx + 1)..Len(urls) :
                    _is_cached(dir', urls[j]) = _is_cached(dir, urls[j])]_vars

\* C4: after the GET of entry url succeeded and was cached, _is_cached holds
\* of the string url itself, redirected or not.
MarkedUnderRequestedString ==
    [][(GetStep /\ OutcomeOfStep = "succeeded") => _is_cached(dir', urls[idx])]_vars

\* C5: an entry reached with its marker present is skipped: no GET, no file
\* created or changed, succeeded and failed unchanged, skipped one more.
SkipChangesOnlySkipped ==
    [][(EntryStep /\ MarkerPresent(dir, urls[idx]))
          => /\ OutcomeOfStep = "skipped"
             /\ requests_log' = requests_log
             /\ dir' = dir
             /\ num_success' = num_success
             /\ failed_downloads' = failed_downloads
             /\ num_skipped' = num_skipped + 1]_vars

\* C5 witness: a second run has skipped an entry that the first run fetched
SkipHappened ==
    /\ pc = "loop"
    /\ run = 2
    /\ dir0 = EmptyDir
    /\ num_skipped >= 1
    /\ outcomes[Len(outcomes)] = "skipped"

\* C6: an entry with no marker whose GET succeeds and whose writes succeed
\* is counted succeeded once, not skipped and not failed, and afterwards its
\* payload file and the marker file of its URL both exist.
FetchedEntryIsCached ==
    [][(GetStep /\ OutcomeOfStep = "succeeded")
          => /\ num_success' = num_success + 1
             /\ num_skipped' = num_skipped
             /\ failed_downloads' = failed_downloads
             /\ _get_response_filename(ResponseOfStep) \in DOMAIN dir'
             /\ MarkerPresent(dir', urls[idx])]_vars

\* C7: a response with a failure status changes no file, appends the URL to
\* the failed list and leaves the succeeded and skipped counters alone.
FailureStatusWritesNothing ==
    [][(GetStep /\ ~ResponseOfStep.raised /\ ~ResponseOfStep.ok)
          => /\ dir' = dir
             /\ failed_downloads' = Append(failed_downloads, urls[idx])
             /\ num_success' = num_success
             /\ num_skipped' = num_skipped]_vars

\* C7 witness: the last entry processed got status 500 and is the latest
\* failed download, in a directory that holds files
FailureStatusHappened ==
    /\ pc = "loop"
    /\ idx > 1
    /\ requests_log # <<>>
    /\ requests_log[Len(requests_log)] = urls[idx - 1]
    /\ net[urls[idx - 1]] = "500"
    /\ failed_downloads # <<>>
    /\ failed_downloads[Len(failed_downloads)] = urls[idx - 1]
    /\ DOMAIN dir # {}

\* a URL string that names one of the two mirror hosts
NamesMirror(url) ==
    \E i \in 1..Len(url) : url[i] \in {"mirror.bazel.build", "mirror.tensorflow.org"}

\* C8: with remove_mirrors at its default, no returned URL names a mirror
\* host, and the result is the pattern's matches without those that name
\* one, in their order and with their duplicates.
MirrorsFiltered ==
    (dependency_urls # "none" /\ remove_mirrors)
        => /\ \A i \in 1..Len(dependency_urls) : ~NamesMirror(dependency_urls[i])
           /\ dependency_urls =
                  SelectSeq(FindAllFrom(contents, 1), LAMBDA u : ~NamesMirror(u))

\* C8 witness: a text with a mirror match dropped and a non-mirror match
\* kept twice
MirrorDroppedDuplicateKept ==
    /\ dependency_urls # "none"
    /\ remove_mirrors
    /\ Len(dependency_urls) >= 2
    /\ dependency_urls[1] = dependency_urls[2]
    /\ Len(FindAllFrom(contents, 1)) > Len(dependency_urls)

\* C9: a process started by main ends with exit status zero, whatever the
\* downloads did.
MainExitsZero ==
    (caller = "main" /\ pc \in {"idle", "crashed"}) => exit_code = 0

\* C10: an entry that ends failed leaves no marker for its URL, so that
\* _is_cached is false for it in the directory the attempt leaves.
FailedEntryNotMarked ==
    [][(EntryStep /\ OutcomeOfStep = "failed")
          => /\ ~MarkerPresent(dir', urls[idx])
             /\ ~_is_cached(dir', urls[idx])]_vars

\* the three terminal outcomes of an entry
Outcomes == {"skipped", "succeeded", "failed"}

\* C11: every entry gets one outcome, which later steps leave as it is, and
\* at most one GET; after i entries skipped + succeeded + failed = i, and
\* the counts of the printed summary add up to the number of URLs.
EntryAccounting ==
    [][/\ (pc' = "loop")
             => /\ num_skipped' + num_success' + Len(failed_downloads') = idx' - 1
                /\ Len(outcomes') = idx' - 1
                /\ idx' - 1 <= Len(urls)
                /\ Len(requests_log') <= idx' - 1
       /\ EntryStep
             => /\ Len(outcomes') = Len(outcomes) + 1
                /\ SubSeq(outcomes', 1, Len(outcomes)) = outcomes
                /\ OutcomeOfStep \in Outcomes
                /\ requests_log' \in {requests_log, Append(requests_log, urls[idx])}
                /\ num_skipped' = num_skipped + (IF OutcomeOfStep = "skipped" THEN 1 ELSE 0)
                /\ num_success' = num_success + (IF OutcomeOfStep = "succeeded" THEN 1 ELSE 0)
                /\ Len(failed_downloads') =
                       Len(failed_downloads) + (IF OutcomeOfStep = "failed" THEN 1 ELSE 0)
       /\ (summaries' # summaries)
             => LET s == summaries'[Len(summaries')]
                IN s.failed + s.skipped + s.completed = Len(urls)]_vars

\* C11 witness: a run has processed a list of two entries, one skipped and
\* one failed
TwoOutcomesCounted ==
    /\ pc = "loop"
    /\ Len(urls) = 2
    /\ idx = 3
    /\ num_skipped = 1
    /\ Len(failed_downloads) = 1

StepRank(step) ==
    CASE step = "check" -> 1
      [] step = "get" -> 2
      [] step = "open" -> 3
      [] step = "write" -> 4
      [] step = "touch" -> 5
      [] OTHER -> 6

HasStep(ev, step) == \E k \in 1..Len(ev) : ev[k][2] = step

\* C12: the steps of an entry are its own only and come in the order ledger
\* check, GET, payload write, marker write, outcome; the payload is written
\* only after a success response and the marker only after the payload; and
\* the entry before it had its outcome before the first of these steps.
EntryOrdering ==
    [][EntryStep
          => /\ events' # <<>>
             /\ \A k \in 1..Len(events') : events'[k][1] = idx
             /\ events'[1][2] = "check"
             /\ \A a, b \in 1..Len(events') :
                    a < b => StepRank(events'[a][2]) < StepRank(events'[b][2])
             /\ events'[Len(events')][2] = OutcomeOfStep
             /\ HasStep(events', "get") <=> GetStep
             /\ HasStep(events', "write")
                    => (HasStep(events', "get") /\ ResponseOfStep.ok)
             /\ HasStep(events', "touch") => HasStep(events', "write")
             /\ (events # <<>>)
                    => /\ events[1][1] = idx - 1
                       /\ events[Len(events)][2] \in Outcomes]_vars

\* C12 witness: the second entry of a list went through every step
SecondEntryAllSteps ==
    events = <<<<2, "check">>, <<2, "get">>, <<2, "open">>, <<2, "write">>,
               <<2, "touch">>, <<2, "succeeded">>>>

\* the number of GETs this run has issued for url
GetsOf(url) == Cardinality({k \in 1..Len(requests_log) : requests_log[k] = url})

\* this step processes an entry whose URL stood earlier in the list
RepeatStep == EntryStep /\ \E j \in 1..(idx - 1) : urls[j] = urls[idx]

\* C13: as stated, a URL that stands twice in the list of a run that began
\* without its marker is downloaded twice in that run.
DuplicateDownloadedTwice ==
    (pc = "loop" /\ run = 1 /\ idx > Len(urls))
        => \A i, j \in 1..Len(urls) :
               (i < j /\ urls[i] = urls[j] /\ ~MarkerPresent(dir0, urls[i]))
                   => GetsOf(urls[i]) >= 2

\* C13, amended: the loop does not deduplicate its list, every entry is
\* processed in turn; a repeated URL is downloaded again exactly when its
\* marker is absent at the moment the repeat is reached, and is skipped
\* without a GET when the marker is there.
DuplicateGatedByMarker ==
    [][/\ RepeatStep => (GetStep <=> ~MarkerPresent(dir, urls[idx]))
       /\ RepeatStep => (OutcomeOfStep = "skipped" <=> MarkerPresent(dir, urls[idx]))
       /\ (summaries' # summaries) => Len(outcomes) = Len(urls)]_vars

\* C13 witness: of two entries with the same URL the first was fetched and
\* the second skipped, in the first run over an empty directory
DuplicateSkipped ==
    /\ run = 1
    /\ dir0 = EmptyDir
    /\ Len(urls) = 2
    /\ urls[1] = urls[2]
    /\ outcomes = <<"succeeded", "skipped">>
    /\ GetsOf(urls[1]) = 1

\* a file name of the form @<hexhash>.txt
MarkerShaped(name) == Len(name) = 3 /\ name[1] = "@" /\ name[3] = ".txt"

\* response.history[0].url if response.history else response.url
RequestedUrl(resp) == IF resp.history # <<>> THEN resp.history[1] ELSE resp.url

\* C14: the file name chosen for a payload never has the form of a marker
\* name, and _is_cached becomes true of a URL only by the marker write for
\* that URL.
PayloadNeverMarkerNamed ==
    [][(GetStep /\ ~ResponseOfStep.raised /\ ResponseOfStep.ok)
          => /\ ~MarkerShaped(_get_response_filename(ResponseOfStep))
             /\ \A u \in AllUrls :
                    (~_is_cached(dir, u) /\ _is_cached(dir', u))
                        => /\ HasStep(events', "touch")
                           /\ u = RequestedUrl(ResponseOfStep)]_vars

\* the double-quoted strings of s that begin with https://, from position
\* p on: each runs from its opening quote to the next quote of the line
RECURSIVE QuotedHttps(_, _)
QuotedHttps(s, p) ==
    IF p > Len(s) THEN <<>>
    ELSE IF p + 1 <= Len(s) /\ s[p] = Quote /\ s[p + 1] = "https://"
    THEN LET closers == {q \in (p + 2)..(LineEnd(s, p) - 1) : s[q] = Quote}
         IN IF closers = {} THEN QuotedHttps(s, p + 1)
            ELSE LET q == CHOOSE c \in closers : \A d \in closers : c <= d
                 IN <<SubSeq(s, p + 1, q - 1)>> \o QuotedHttps(s, q + 1)
    ELSE QuotedHttps(s, p + 1)

\* C15: with remove_mirrors false the result is the contents of the quoted
\* strings that begin with https://, one entry per quoted string, in order
\* and with duplicates, also for several quoted URLs on one line.
ExtractsEachQuotedUrl ==
    (dependency_urls # "none" /\ ~remove_mirrors)
        => /\ dependency_urls = QuotedHttps(contents, 1)
           /\ \A i \in 1..Len(dependency_urls) : ~Contains(dependency_urls[i], Quote)

\* str.strip of quotes, commas and blanks at both ends
RECURSIVE Trim(_)
Trim(name) ==
    IF name = <<>> THEN name
    ELSE IF Head(name) \in {Quote, ",", " "} THEN Trim(Tail(name))
    ELSE IF name[Len(name)] \in {Quote, ",", " "}
    THEN Trim(SubSeq(name, 1, Len(name) - 1))
    ELSE name

\* the file name C16 describes for a response
TrimmedFilename(resp) ==
    IF HasHeader(resp.headers, "Content-Disposition")
       /\ FindFilename(Header(resp.headers, "Content-Disposition")) # <<>>
    THEN Trim(FindFilename(Header(resp.headers, "Content-Disposition"))[1])
    ELSE PathName(resp.url)

\* C16: the payload of a success response is stored under the filename=
\* value of Content-Disposition with quotes, commas and whitespace trimmed,
\* or else under the last path segment of the final URL.
FilenameTrimmed ==
    [][(GetStep /\ OutcomeOfStep = "succeeded")
          => /\ _get_response_filename(ResponseOfStep) = TrimmedFilename(ResponseOfStep)
             /\ TrimmedFilename(ResponseOfStep) \in DOMAIN dir']_vars

\* C17: no step removes a file, so a marker that exists stays; and the
\* marker write of a URL whose marker exists adds no file (the directory
\* then holds what it held, and the payload).
MarkersMonotone ==
    [][/\ \A u \in AllUrls : MarkerPresent(dir, u) => MarkerPresent(dir', u)
       /\ DOMAIN dir \subseteq DOMAIN dir'
       /\ (GetStep /\ HasStep(events', "touch")
             /\ MarkerPresent(dir, RequestedUrl(ResponseOfStep)))
            => DOMAIN dir' =
                   (DOMAIN dir) \cup {_get_response_filename(ResponseOfStep)}]_vars

\* C17 witness: a second run fetched and marked again a URL that the first
\* run had fetched and marked
MarkedAgain ==
    /\ run = 2
    /\ urls = <<U_BARE>>
    /\ summaries # <<>>
    /\ summaries[1].completed = 1
    /\ events # <<>>
    /\ events[Len(events)] = <<1, "succeeded">>
    /\ MarkerPresent(dir, U_ROOT)

\* no entry has failed, in this run or an earlier one
NoFailureSoFar ==
    /\ failed_downloads = <<>>
    /\ \A k \in 1..Len(summaries) : summaries[k].failed = 0

\* C18: for every URL whose marker exists, a file of the directory holds
\* the body of the response downloaded for it.  Stated for servers that
\* name no payload like a marker and for runs in which nothing has failed.
CachedMeansOnDisk ==
    ((\A v \in ListedUrls : net[v] # "named_marker") /\ NoFailureSoFar)
        => \A u \in AllUrls :
               MarkerPresent(dir, u) => \E f \in DOMAIN dir : dir[f] = Body(u)

====
